---- MODULE Spec2Model ----
(***************************************************************************)
(* A model of snapshot_inventory.py: the per-region snapshot collectors,   *)
(* the thread-pool fan-out of main, the age-bucketing of generate_summary  *)
(* and the two CSV exporters.                                              *)
(*                                                                         *)
(* Representation.                                                         *)
(*  - A timestamp is an integer number of days; timedelta(days=n) is n.    *)
(*  - A string the code splits or joins on a separator is the sequence of  *)
(*    its separator-free segments: the source id "vol-1" is <<"vol","1">>, *)
(*    the aggregation key f"{service}-{source}" is <<service>> \o source,  *)
(*    and key.split('-')[0] is Head(key).                                  *)
(*  - 'Size (GB)' is kept in hundredths of a GB (the EFS collector rounds  *)
(*    to two decimals).                                                    *)
(*  - A dict is a function; a missing key is a value outside its DOMAIN.   *)
(***************************************************************************)
EXTENDS Integers, Sequences, FiniteSets, TLC

VARIABLES
    pc,                 \* where main (or the function under study) stands
    discovery,          \* how region discovery ended
    regions,            \* main: regions
    futures,            \* main: future_to_region, each future's state and outcome
    yielded,            \* futures as_completed has already handed to the loop
    all_snapshots,      \* main: all_snapshots
    sorted_snapshots,   \* main: sorted_snapshots, the input of generate_summary
    flat_file,          \* the file export_to_csv writes
    date_ranges,        \* generate_summary: date_ranges
    summary,            \* main: summary, the result of generate_summary
    summary_file,       \* the file export_summary_to_csv writes
    call,               \* get_snapshots_for_region: region and provider responses
    ret,                \* get_snapshots_for_region: how the call ended
    console             \* the lines main prints outside its fan-out loop and
                        \* the lines the two exporters print, each <<text>>

vars == <<pc, discovery, regions, futures, yielded, all_snapshots,
          sorted_snapshots, flat_file, date_ranges, summary, summary_file,
          call, ret, console>>

(***************************************************************************)
(* Bounds of the model.                                                    *)
(***************************************************************************)
\* The longest record list generate_summary is applied to on its own.
MaxRecords == 2

\* The most regions region discovery returns.
MaxRegions == 3

\* The regions of a fan-out taken on its own; more than the 10 workers the
\* pool is capped at.
FanOutRegions == 11

(***************************************************************************)
(* Helpers over sequences.                                                 *)
(***************************************************************************)
Range(s) == {s[i] : i \in DOMAIN s}

RECURSIVE SeqSum(_)
SeqSum(s) == IF s = <<>> THEN 0 ELSE Head(s) + SeqSum(Tail(s))

RECURSIVE Flatten(_)
Flatten(ss) == IF ss = <<>> THEN <<>> ELSE Head(ss) \o Flatten(Tail(ss))

Count(x, s) == Cardinality({i \in DOMAIN s : s[i] = x})

\* An empty dict.
EmptyMap == [k \in {} |-> k]

\* The strings the model orders, in Python's (code point) order.
StrOrder == <<"1", "2", "3", "Automated", "EBS", "EFS", "Manual", "N/A", "RDS",
              "db", "fs", "vol">>

StrRank(a) == CHOOSE i \in DOMAIN StrOrder : StrOrder[i] = a

StrLess(a, b) == StrRank(a) < StrRank(b)

\* Python's < on two strings given by their '-'-separated segments (every
\* character of a segment sorts after '-', as letters, digits and '/' do).
RECURSIVE SegLess(_, _)
SegLess(k1, k2) ==
    IF k1 = <<>> THEN k2 # <<>>
    ELSE IF k2 = <<>> THEN FALSE
    ELSE IF Head(k1) = Head(k2) THEN SegLess(Tail(k1), Tail(k2))
    ELSE StrLess(Head(k1), Head(k2))

\* sorted(S) for a set of strings.
RECURSIVE SortedStrs(_)
SortedStrs(S) ==
    IF S = {} THEN <<>>
    ELSE LET m == CHOOSE a \in S : \A o \in S \ {a} : StrLess(a, o)
         IN <<m>> \o SortedStrs(S \ {m})

(***************************************************************************)
(* The provider boundary.  A call answers Ok(items) or raises: Fail(exc),  *)
(* exc the exception's class.  botocore's ClientError is the one class the *)
(* collectors catch; EndpointConnectionError stands for every failure that *)
(* is no ClientError (a BotoCoreError, a timeout, ...).  A raw object is a *)
(* dict: a function whose DOMAIN is the keys it has.                       *)
(***************************************************************************)
Ok(items) == [kind |-> "ok", items |-> items]

Fail(exc) == [kind |-> "error", exc |-> exc]

\* How a Python call ends.
Return(value) == [kind |-> "return", value |-> value]

Raise(exc) == [kind |-> "raise", exc |-> exc]

\* d.get(key, default)
Get(d, key, default) == IF key \in DOMAIN d THEN d[key] ELSE default

\* s.startswith(prefix), s given by its chunks, the first as long as the prefix.
StartsWith(s, prefix) == s # <<>> /\ Head(s) = prefix

\* round(x, 2) of x = mib / 1024 GB, in hundredths of a GB (ties to even); the
\* model gives BackupSizeInBytes in MiB.
RoundHundredths(mib) ==
    LET q == (mib * 100) \div 1024
        r == (mib * 100) % 1024
    IN IF 2 * r > 1024 \/ (2 * r = 1024 /\ q % 2 = 1) THEN q + 1 ELSE q

\* The records of a list of raw objects, made one by one by normalize; the
\* first object that raises ends the loop.
RECURSIVE AppendAll(_, _, _)
AppendAll(snapshots, items, normalized) ==
    IF items = <<>> THEN Return(snapshots)
    ELSE LET made == normalized[Head(items)]
         IN IF made.kind = "raise" THEN made
            ELSE AppendAll(Append(snapshots, made.value), Tail(items), normalized)

\* get_rds_snapshots_for_region: the dict appended for one DBSnapshot; a
\* subscript of a key the object lacks raises KeyError.
RdsRecord(region, type, snapshot) ==
    IF {"DBSnapshotIdentifier", "DBInstanceIdentifier", "AllocatedStorage",
        "Status", "SnapshotCreateTime"} \subseteq DOMAIN snapshot
    THEN Return([Service |-> "RDS", Region |-> region, Type |-> type,
                 SnapshotID |-> snapshot["DBSnapshotIdentifier"],
                 Source |-> snapshot["DBInstanceIdentifier"],
                 Engine |-> Get(snapshot, "Engine", "N/A"),
                 SizeGB |-> snapshot["AllocatedStorage"] * 100,
                 Status |-> snapshot["Status"],
                 CreationTime |-> snapshot["SnapshotCreateTime"],
                 Encrypted |-> Get(snapshot, "Encrypted", FALSE)])
    ELSE Raise("KeyError")

\* One paginate(SnapshotType=type) loop of get_rds_snapshots_for_region.
RdsPass(region, type, snapshots, resp) ==
    IF resp.kind = "error" THEN Raise(resp.exc)
    ELSE AppendAll(snapshots, resp.items,
                   [o \in Range(resp.items) |-> RdsRecord(region, type, o)])

\* except ClientError: return []; any other exception leaves the function.
CatchClientError(outcome) ==
    IF outcome.kind = "raise" /\ outcome.exc = "ClientError" THEN Return(<<>>)
    ELSE outcome

get_rds_snapshots_for_region(region, rds) ==
    LET manual == RdsPass(region, "Manual", <<>>, rds.manual)
    IN CatchClientError(
           IF manual.kind = "raise" THEN manual
           ELSE RdsPass(region, "Automated", manual.value, rds.automated))

\* get_ec2_snapshots_for_region: volumes, {} when describe_volumes raised
\* (except Exception, a warning only).
VolumesOf(ec2) == IF ec2.volumes.kind = "error" THEN EmptyMap ELSE ec2.volumes.items

\* The dict appended for one EBS snapshot.
Ec2Record(region, volumes, snapshot) ==
    IF {"SnapshotId", "VolumeSize", "State", "StartTime"} \subseteq DOMAIN snapshot
    THEN LET volume_id == Get(snapshot, "VolumeId", <<"N/A">>)
             volume_details == Get(volumes, volume_id, EmptyMap)
         IN Return([Service |-> "EBS", Region |-> region,
                    Type |-> IF ~StartsWith(Get(snapshot, "Description", <<>>),
                                            "Created by CreateImage")
                             THEN "Manual" ELSE "Automated",
                    SnapshotID |-> snapshot["SnapshotId"],
                    Source |-> volume_id,
                    Engine |-> Get(volume_details, "Type", "EBS"),
                    SizeGB |-> snapshot["VolumeSize"] * 100,
                    Status |-> snapshot["State"],
                    CreationTime |-> snapshot["StartTime"],
                    Encrypted |-> Get(snapshot, "Encrypted", FALSE)])
    ELSE Raise("KeyError")

get_ec2_snapshots_for_region(region, ec2) ==
    CatchClientError(
        IF ec2.identity.kind = "error" THEN Raise(ec2.identity.exc)
        ELSE IF ec2.snapshots.kind = "error" THEN Raise(ec2.snapshots.exc)
        ELSE AppendAll(<<>>, ec2.snapshots.items,
                 [o \in Range(ec2.snapshots.items) |-> Ec2Record(region, VolumesOf(ec2), o)]))

\* The dict appended for one recovery point of file system fs.
EfsRecord(region, fs, recovery_point) ==
    IF {"RecoveryPointArn", "CreationDate"} \subseteq DOMAIN recovery_point
    THEN Return([Service |-> "EFS", Region |-> region,
                 Type |-> IF StartsWith(Get(recovery_point, "CreatedBy", <<>>), "aws/backup")
                          THEN "Automated" ELSE "Manual",
                 SnapshotID |-> recovery_point["RecoveryPointArn"]
                                    [Len(recovery_point["RecoveryPointArn"])],
                 Source |-> fs.FileSystemId,
                 Engine |-> "EFS",
                 SizeGB |-> RoundHundredths(Get(recovery_point, "BackupSizeInBytes", 0)),
                 Status |-> Get(recovery_point, "Status", "N/A"),
                 CreationTime |-> recovery_point["CreationDate"],
                 Encrypted |-> TRUE])
    ELSE Raise("KeyError")

\* The loop over the file systems: a ClientError of describe_backup_policy or of
\* list_recovery_points_by_resource skips the file system (continue).
RECURSIVE EfsLoop(_, _, _)
EfsLoop(region, snapshots, file_systems) ==
    IF file_systems = <<>> THEN Return(snapshots)
    ELSE LET fs == Head(file_systems)
             points ==
                 IF fs.backup_policy.kind = "error" THEN Raise(fs.backup_policy.exc)
                 ELSE IF fs.recovery_points.kind = "error"
                      THEN Raise(fs.recovery_points.exc)
                      ELSE AppendAll(snapshots, fs.recovery_points.items,
                               [o \in Range(fs.recovery_points.items) |->
                                   EfsRecord(region, fs, o)])
         IN IF points.kind = "raise"
            THEN IF points.exc = "ClientError"
                 THEN EfsLoop(region, snapshots, Tail(file_systems))
                 ELSE points
            ELSE EfsLoop(region, points.value, Tail(file_systems))

get_efs_snapshots_for_region(region, efs) ==
    CatchClientError(
        IF efs.file_systems.kind = "error" THEN Raise(efs.file_systems.exc)
        ELSE EfsLoop(region, <<>>, efs.file_systems.items))

\* get_snapshots_for_region, c the region and what the provider answers.
get_snapshots_for_region(c) ==
    LET rds_snapshots == get_rds_snapshots_for_region(c.region, c.rds)
        ec2_snapshots == get_ec2_snapshots_for_region(c.region, c.ec2)
        efs_snapshots == get_efs_snapshots_for_region(c.region, c.efs)
    IN IF rds_snapshots.kind = "raise" THEN rds_snapshots
       ELSE IF ec2_snapshots.kind = "raise" THEN ec2_snapshots
       ELSE IF efs_snapshots.kind = "raise" THEN efs_snapshots
       ELSE Return(rds_snapshots.value \o ec2_snapshots.value \o efs_snapshots.value)

(***************************************************************************)
(* What the provider may answer.  Each region has a small inventory; a     *)
(* listing answers with it, with it and one more object that lacks its     *)
(* creation time, or raises.                                               *)
(***************************************************************************)
RegionNames == <<"us-east-1", "eu-west-1", "ap-south-1", "us-east-2",
                 "us-west-1", "us-west-2", "eu-west-2", "eu-west-3",
                 "eu-central-1", "eu-north-1", "ap-northeast-1",
                 "ap-northeast-2", "ap-southeast-1", "ap-southeast-2",
                 "ca-central-1", "sa-east-1">>

RdsManual(region) ==
    IF region = "us-east-1"
    THEN << [DBSnapshotIdentifier |-> "rds-m1", DBInstanceIdentifier |-> <<"db", "1">>,
             AllocatedStorage |-> 100, Status |-> "available",
             SnapshotCreateTime |-> 2000, Engine |-> "mysql", Encrypted |-> TRUE] >>
    ELSE IF region = "ap-south-1"
    THEN << [DBSnapshotIdentifier |-> "rds-m2", DBInstanceIdentifier |-> <<"db", "2">>,
             AllocatedStorage |-> 50, Status |-> "available",
             SnapshotCreateTime |-> 1999] >>
    ELSE <<>>

RdsAutomated(region) ==
    IF region = "us-east-1"
    THEN << [DBSnapshotIdentifier |-> "rds-a1", DBInstanceIdentifier |-> <<"db", "1">>,
             AllocatedStorage |-> 100, Status |-> "available",
             SnapshotCreateTime |-> 1993, Engine |-> "mysql"] >>
    ELSE <<>>

\* A snapshot still being created: it has no SnapshotCreateTime yet.
RdsCreating ==
    [DBSnapshotIdentifier |-> "rds-m9", DBInstanceIdentifier |-> <<"db", "1">>,
     AllocatedStorage |-> 100, Status |-> "creating", Engine |-> "mysql"]

EbsSnapshots(region) ==
    IF region = "us-east-1"
    THEN << [SnapshotId |-> "snap-1", VolumeId |-> <<"vol", "1">>, VolumeSize |-> 8,
             State |-> "completed", StartTime |-> 1200, Encrypted |-> TRUE] >>
    ELSE IF region = "eu-west-1"
    THEN << [SnapshotId |-> "snap-2", VolumeId |-> <<"vol", "2">>, VolumeSize |-> 20,
             State |-> "completed", StartTime |-> 1978,
             Description |-> <<"Created by CreateImage", "(i-1) for ami-1">>] >>
    ELSE <<>>

\* An EBS snapshot object without its StartTime.
EbsNoStartTime ==
    [SnapshotId |-> "snap-9", VolumeId |-> <<"vol", "1">>, VolumeSize |-> 8,
     State |-> "pending"]

\* The volumes dict describe_volumes fills.
EbsVolumes(region) ==
    IF region = "us-east-1"
    THEN [v \in {<<"vol", "1">>} |-> [Size |-> 8, Type |-> "gp3"]]
    ELSE EmptyMap

EfsRecoveryPoints(region) ==
    IF region = "eu-west-1"
    THEN << [RecoveryPointArn |-> <<"arn:aws:backup:eu-west-1:1:recovery-point:rp", "rp-1">>,
             CreationDate |-> 1990, BackupSizeInBytes |-> 1536, Status |-> "COMPLETED"] >>
    ELSE <<>>

\* The answers of one listing whose inventory is items, bad an object of the
\* same kind that lacks a required key.
Listings(items, bad) ==
    {Ok(items), Fail("ClientError"), Fail("EndpointConnectionError")}
    \cup (IF items = <<>> THEN {} ELSE {Ok(Append(items, bad)), Ok(<<bad>> \o items)})

Failures == {Fail("ClientError"), Fail("EndpointConnectionError")}

RdsAnswers(region) ==
    [manual : Listings(RdsManual(region), RdsCreating),
     automated : {Ok(RdsAutomated(region))} \cup Failures]

Ec2Answers(region) ==
    [identity : {Ok(<<>>)} \cup Failures,
     volumes : {Ok(EbsVolumes(region)), Fail("EndpointConnectionError")},
     snapshots : Listings(EbsSnapshots(region), EbsNoStartTime)]

\* The file systems of a region, each with what its two backup calls answer.
EfsFileSystems(region) ==
    IF region = "eu-west-1"
    THEN {<< [FileSystemId |-> <<"fs", "1">>, backup_policy |-> bp,
              recovery_points |-> rp] >> :
             bp \in {Ok(<<>>)} \cup Failures,
             rp \in {Ok(EfsRecoveryPoints(region))} \cup Failures}
    ELSE {<<>>}

EfsAnswers(region) ==
    [file_systems : {Ok(fss) : fss \in EfsFileSystems(region)} \cup Failures]

\* Every call of get_snapshots_for_region(region) with what the provider answers.
Calls(region) ==
    [region : {region}, rds : RdsAnswers(region), ec2 : Ec2Answers(region),
     efs : EfsAnswers(region)]

(***************************************************************************)
(* generate_date_ranges and generate_summary.                              *)
(***************************************************************************)
\* generate_date_ranges: the (days, label) list.
ranges == << <<7, "7 days">>, <<15, "15 days">>, <<30, "30 days">>,
             <<90, "90 days">>, <<180, "180 days">>, <<365, "365 days">>,
             <<730, "730 days">> >>

OverflowLabel == "> 730 days"

\* A date range is <<start_date, end_date, label>>.
RECURSIVE DateRangesLoop(_, _, _)
DateRangesLoop(i, latest_date, acc) ==
    IF i > Len(ranges) THEN acc
    ELSE LET start_date == latest_date - ranges[i][1]
         IN DateRangesLoop(i + 1, start_date,
                           Append(acc, <<start_date, latest_date, ranges[i][2]>>))

\* The loop without "latest_date = start_date": every window ends at the anchor.
RECURSIVE DateRangesFromAnchor(_, _, _)
DateRangesFromAnchor(i, latest_date, acc) ==
    IF i > Len(ranges) THEN acc
    ELSE LET start_date == latest_date - ranges[i][1]
         IN DateRangesFromAnchor(i + 1, latest_date,
                           Append(acc, <<start_date, latest_date, ranges[i][2]>>))

generate_date_ranges_not_cascading(latest_date) ==
    DateRangesFromAnchor(1, latest_date, <<>>)

generate_date_ranges(latest_date) == DateRangesLoop(1, latest_date, <<>>)

\* max(s['Creation Time'] for s in snapshots), snapshots not empty.
RECURSIVE MaxTime(_)
MaxTime(snapshots) ==
    IF Len(snapshots) = 1 THEN snapshots[1].CreationTime
    ELSE LET m == MaxTime(Tail(snapshots))
         IN IF snapshots[1].CreationTime >= m THEN snapshots[1].CreationTime ELSE m

LatestDateOfFirst(snapshots) == snapshots[1].CreationTime

LatestDate(snapshots) == MaxTime(snapshots)

\* f"{service}-{source}"
AggregationKey(snapshot) == <<snapshot.Service>> \o snapshot.Source

\* The 4 fields generate_summary keeps of a record.
Projection(snapshot) ==
    [SnapshotID |-> snapshot.SnapshotID, CreationTime |-> snapshot.CreationTime,
     SizeGB |-> snapshot.SizeGB, Type |-> snapshot.Type]

\* defaultdict(lambda: defaultdict(list)), empty.
EmptyDict == EmptyMap

\* summary[key][label].append(entry) on a defaultdict of defaultdicts of lists.
AppendTo(sm, key, label, entry) ==
    LET inner == IF key \in DOMAIN sm THEN sm[key] ELSE EmptyDict
        lst   == IF label \in DOMAIN inner THEN inner[label] ELSE <<>>
        inner2 == [l \in (DOMAIN inner) \cup {label} |->
                      IF l = label THEN Append(lst, entry) ELSE inner[l]]
    IN [k \in (DOMAIN sm) \cup {key} |-> IF k = key THEN inner2 ELSE sm[k]]

InRangeStrictStart(start_date, creation_time, end_date) ==
    start_date < creation_time /\ creation_time <= end_date

\* start_date <= creation_time <= end_date
InRange(start_date, creation_time, end_date) ==
    start_date <= creation_time /\ creation_time <= end_date

\* The scan of one record over date_ranges from index i: the first window that
\* holds it gets it (break); with none, range_found stays False and the record
\* goes to the overflow label.
RECURSIVE ScanRanges(_, _, _, _)
ScanRanges(sm, snapshot, drs, i) ==
    IF i > Len(drs)
    THEN AppendTo(sm, AggregationKey(snapshot), OverflowLabel, Projection(snapshot))
    ELSE IF InRange(drs[i][1], snapshot.CreationTime, drs[i][2])
         THEN AppendTo(sm, AggregationKey(snapshot), drs[i][3], Projection(snapshot))
         ELSE ScanRanges(sm, snapshot, drs, i + 1)

\* The scan without its break: every window that holds the record gets it.
RECURSIVE ScanRangesNoBreak(_, _, _, _, _)
ScanRangesNoBreak(sm, snapshot, drs, i, range_found) ==
    IF i > Len(drs)
    THEN IF range_found THEN sm
         ELSE AppendTo(sm, AggregationKey(snapshot), OverflowLabel, Projection(snapshot))
    ELSE IF InRange(drs[i][1], snapshot.CreationTime, drs[i][2])
         THEN ScanRangesNoBreak(
                  AppendTo(sm, AggregationKey(snapshot), drs[i][3], Projection(snapshot)),
                  snapshot, drs, i + 1, TRUE)
         ELSE ScanRangesNoBreak(sm, snapshot, drs, i + 1, range_found)

PlaceSnapshotNoBreak(sm, snapshot, drs) == ScanRangesNoBreak(sm, snapshot, drs, 1, FALSE)

\* The body of "for snapshot in snapshots".
PlaceSnapshot(sm, snapshot, drs) == ScanRanges(sm, snapshot, drs, 1)

RECURSIVE SummaryLoop(_, _, _, _)
SummaryLoop(sm, snapshots, drs, i) ==
    IF i > Len(snapshots) THEN sm
    ELSE SummaryLoop(PlaceSnapshot(sm, snapshots[i], drs), snapshots, drs, i + 1)

\* generate_summary's date_ranges local (no ranges are made for an empty list).
SummaryDateRanges(snapshots) ==
    IF snapshots = <<>> THEN <<>> ELSE generate_date_ranges(LatestDate(snapshots))

generate_summary(snapshots) ==
    IF snapshots = <<>> THEN EmptyDict
    ELSE SummaryLoop(EmptyDict, snapshots, SummaryDateRanges(snapshots), 1)

(***************************************************************************)
(* export_summary_to_csv.  A row is a record; kind tells which row it is.  *)
(***************************************************************************)
\* export_summary_to_csv: its date_ranges list without the overflow label.
ExportLabelsNoOverflow == <<"7 days", "15 days", "30 days", "90 days",
                            "180 days", "365 days", "730 days">>

\* export_summary_to_csv: its date_ranges list.
ExportLabels == <<"7 days", "15 days", "30 days", "90 days",
                  "180 days", "365 days", "730 days", "> 730 days">>

\* ranges.get(date_range, [])
BucketOf(sm, source, date_range) ==
    IF source \in DOMAIN sm /\ date_range \in DOMAIN sm[source]
    THEN sm[source][date_range] ELSE <<>>

\* date_range_groups[date_range]: the sources with snapshots in date_range.
GroupsOf(sm, date_range) ==
    {source \in DOMAIN sm : BucketOf(sm, source, date_range) # <<>>}

\* sorted(sources, key=lambda x: (x['Service'], x['Service-Source'])); the keys
\* of a dict are distinct, so the order summary.items() gave them in is lost.
RECURSIVE SortedSources(_)
SortedSources(S) ==
    IF S = {} THEN <<>>
    ELSE LET m == CHOOSE k \in S : \A o \in S \ {k} :
                      \/ StrLess(Head(k), Head(o))
                      \/ Head(k) = Head(o) /\ SegLess(k, o)
         IN <<m>> \o SortedSources(S \ {m})

SizesOf(snapshots) == [i \in DOMAIN snapshots |-> snapshots[i].SizeGB]

GroupRow(sm, source, date_range) ==
    LET snapshots == BucketOf(sm, source, date_range)
    IN [kind |-> "group", date_range |-> date_range, source |-> source,
        count |-> Len(snapshots), total_size |-> SeqSum(SizesOf(snapshots)),
        ids |-> [i \in DOMAIN snapshots |-> snapshots[i].SnapshotID],
        types |-> SortedStrs({snapshots[i].Type : i \in DOMAIN snapshots}),
        service |-> Head(source)]

\* The 'Summary for' block's row of one service.
ServiceRow(sm, sorted_sources, date_range, service) ==
    LET mine == SelectSeq(sorted_sources, LAMBDA k : Head(k) = service)
    IN [kind |-> "service", service |-> service,
        count |-> SeqSum([i \in DOMAIN mine |-> Len(BucketOf(sm, mine[i], date_range))]),
        total_size |-> SeqSum([i \in DOMAIN mine |->
                          SeqSum(SizesOf(BucketOf(sm, mine[i], date_range)))])]

\* The rows written for one date range; nothing when it has no sources.
RangeRows(sm, date_range) ==
    LET sources == GroupsOf(sm, date_range)
        sorted_sources == SortedSources(sources)
        services == SortedStrs({Head(k) : k \in sources})
    IN IF sources = {} THEN <<>>
       ELSE (IF date_range # "7 days" THEN << [kind |-> "blank"] >> ELSE <<>>)
            \o << [kind |-> "range", date_range |-> date_range] >>
            \o [i \in DOMAIN sorted_sources |-> GroupRow(sm, sorted_sources[i], date_range)]
            \o << [kind |-> "summary_for", date_range |-> date_range] >>
            \o [i \in DOMAIN services |->
                   ServiceRow(sm, sorted_sources, date_range, services[i])]
            \o << [kind |-> "total", date_range |-> date_range,
                   count |-> SeqSum([i \in DOMAIN sorted_sources |->
                                Len(BucketOf(sm, sorted_sources[i], date_range))]),
                   total_size |-> SeqSum([i \in DOMAIN sorted_sources |->
                                SeqSum(SizesOf(BucketOf(sm, sorted_sources[i], date_range)))])] >>

\* Every row export_summary_to_csv writes when no write fails.
SummaryRows(sm) ==
    << [kind |-> "header"] >>
    \o Flatten([i \in DOMAIN ExportLabels |-> RangeRows(sm, ExportLabels[i])])

(***************************************************************************)
(* Files.  open(filename, 'w') may raise (no file), a write may raise      *)
(* after some rows (the with-block closes the file, the rows written stay) *)
(* or every row is written; the exporters catch the exception.             *)
(***************************************************************************)
NoFile == [exists |-> FALSE, rows |-> <<>>, complete |-> FALSE]

WriteOutcomes(rows) ==
    {NoFile, [exists |-> TRUE, rows |-> rows, complete |-> TRUE]}
    \cup {[exists |-> TRUE, rows |-> SubSeq(rows, 1, n), complete |-> FALSE] :
             n \in 0 .. (Len(rows) - 1)}

\* The exception open() or a write raised, if the file is not whole.
WriteEnded(written) ==
    IF written.complete THEN Return(<<>>) ELSE Raise("OSError")

\* An exporter without its try/except: the exception leaves it.
ExportNoExcept(written, exported, error) ==
    IF written.complete
    THEN [ended |-> Return(<<>>), printed |-> <<exported>>]
    ELSE [ended |-> WriteEnded(written), printed |-> <<>>]

\* try: <write the file>; print(exported)
\* except Exception as e: print(error)
\* How the exporter ends and what it prints, given the file it left.
Export(written, exported, error) ==
    IF WriteEnded(written).kind = "return"
    THEN [ended |-> Return(<<>>), printed |-> <<exported>>]
    ELSE [ended |-> Return(<<>>), printed |-> <<error>>]

export_to_csv(written) ==
    Export(written, <<"Data exported to">>, <<"Error exporting to CSV">>)

export_summary_to_csv(written) ==
    Export(written, <<"Summary exported to">>, <<"Error exporting summary to CSV">>)

\* What main's outer "except Exception" prints when a call of main raised.
OuterExcept(ended) ==
    IF ended.kind = "raise" THEN << <<"An error occurred">> >> ELSE <<>>

(***************************************************************************)
(* The last steps of main: generate_summary, export_summary_to_csv and the *)
(* summary printed to the console.                                         *)
(***************************************************************************)
GenerateSummary ==
    /\ pc = "generate_summary"
    /\ date_ranges' = SummaryDateRanges(sorted_snapshots)
    /\ summary' = generate_summary(sorted_snapshots)
    /\ console' = Append(console, <<"Generating summary report...">>)
    /\ pc' = "export_summary"
    /\ UNCHANGED <<discovery, regions, futures, yielded, all_snapshots,
                   sorted_snapshots, flat_file, summary_file, call, ret>>

ExportSummary ==
    /\ pc = "export_summary"
    /\ \E written \in WriteOutcomes(SummaryRows(summary)) :
          LET export == export_summary_to_csv(written)
          IN /\ summary_file' = written
             /\ console' = console \o export.printed \o OuterExcept(export.ended)
             /\ pc' = IF export.ended.kind = "return" THEN "print_summary" ELSE "done"
    /\ UNCHANGED <<discovery, regions, futures, yielded, all_snapshots,
                   sorted_snapshots, flat_file, date_ranges, summary, call, ret>>

\* "Detailed Summary by Age", "Overall Summary", "Storage Usage": main ends.
PrintSummary ==
    /\ pc = "print_summary"
    /\ console' = console \o << <<"Detailed Summary by Age">>,
                                <<"Overall Summary">>, <<"Storage Usage">> >>
    /\ pc' = "done"
    /\ UNCHANGED <<discovery, regions, futures, yielded, all_snapshots,
                   sorted_snapshots, flat_file, date_ranges, summary,
                   summary_file, call, ret>>

(***************************************************************************)
(* main: identity, region discovery, the thread-pool fan-out, the sort and *)
(* the flat export.  A future is [region, state, outcome], state one of    *)
(* "queued", "running", "finished".                                        *)
(***************************************************************************)
\* No call made, no call ended.
NoCall == [region |-> "none"]

NoRet == [kind |-> "none"]

\* What describe_regions may answer.
RegionAnswers ==
    {Ok(SubSeq(RegionNames, 1, n)) : n \in 0 .. MaxRegions} \cup Failures

\* get_all_regions answering a default region when describe_regions fails.
get_all_regions_with_default(resp) ==
    IF resp.kind = "ok" THEN Return(resp.items)
    ELSE IF resp.exc = "ClientError" THEN Return(<<RegionNames[1]>>)
    ELSE Raise(resp.exc)

\* get_all_regions: [] on a ClientError, any other exception leaves it.
get_all_regions(resp) ==
    IF resp.kind = "ok" THEN Return(resp.items)
    ELSE IF resp.exc = "ClientError" THEN Return(<<>>)
    ELSE Raise(resp.exc)

\* How describe_regions ended, as main's diagnostic tells it.
DiscoveryOf(resp) ==
    IF resp.kind = "error" THEN resp.exc
    ELSE IF resp.items = <<>> THEN "empty" ELSE "ok"

\* Every way get_snapshots_for_region(region) may end.
RegionOutcomes ==
    [region \in Range(RegionNames) |->
        {get_snapshots_for_region(c) : c \in Calls(region)}]

\* A pool with one worker per region, whatever their number.
max_workers_per_region == Len(regions)

\* ThreadPoolExecutor(max_workers=min(len(regions), 10))
max_workers == IF Len(regions) < 10 THEN Len(regions) ELSE 10

Running == {i \in DOMAIN futures : futures[i].state = "running"}

\* The loop body with the except branch emptying the list.
MergeResultResetOnError(snapshots, outcome) ==
    IF outcome.kind = "return" THEN snapshots \o outcome.value ELSE <<>>

\* The body of the as_completed loop: all_snapshots.extend(future.result()),
\* or, when result() raises, a message only.
MergeResult(snapshots, outcome) ==
    IF outcome.kind = "return" THEN snapshots \o outcome.value ELSE snapshots

\* A sort key without the record's Type: (Service, Creation Time).
SortKeyLessWithoutType(a, b) ==
    \/ StrLess(a.Service, b.Service)
    \/ a.Service = b.Service /\ a.CreationTime < b.CreationTime

\* (Service, Type, Creation Time) < (Service, Type, Creation Time)
SortKeyLess(a, b) ==
    \/ StrLess(a.Service, b.Service)
    \/ a.Service = b.Service /\ StrLess(a.Type, b.Type)
    \/ a.Service = b.Service /\ a.Type = b.Type /\ a.CreationTime < b.CreationTime

\* x put into a list sorted downwards, behind the records of an equal key.
RECURSIVE InsertDescending(_, _)
InsertDescending(x, s) ==
    IF s = <<>> THEN <<x>>
    ELSE IF SortKeyLess(Head(s), x) THEN <<x>> \o s
    ELSE <<Head(s)>> \o InsertDescending(x, Tail(s))

\* sorted(all_snapshots, key=..., reverse=True): stable, records of an equal
\* key keep their order.
RECURSIVE SortedDescending(_, _)
SortedDescending(done, todo) ==
    IF todo = <<>> THEN done
    ELSE SortedDescending(InsertDescending(Head(todo), done), Tail(todo))

\* export_to_csv: the row of one record, its datetime through strftime and its
\* bool as Yes or No (the columns no record of the model has are left out).
FlatRow(snapshot) ==
    [kind |-> "record", Service |-> snapshot.Service, Region |-> snapshot.Region,
     Type |-> snapshot.Type, SnapshotID |-> snapshot.SnapshotID,
     Source |-> snapshot.Source, Engine |-> snapshot.Engine,
     SizeGB |-> snapshot.SizeGB, Status |-> snapshot.Status,
     CreationTime |-> [strftime |-> snapshot.CreationTime],
     Encrypted |-> IF snapshot.Encrypted THEN "Yes" ELSE "No"]

\* Every row export_to_csv writes when no write fails.
FlatRows(snapshots) ==
    << [kind |-> "header"] >> \o [i \in DOMAIN snapshots |-> FlatRow(snapshots[i])]

\* sts get_caller_identity at the top of main; an exception ends main in its
\* outer except.
GetIdentity ==
    /\ pc = "identity"
    /\ \E resp \in {Ok(<<>>)} \cup Failures :
          /\ pc' = IF resp.kind = "ok" THEN "discover" ELSE "done"
          /\ console' = IF resp.kind = "ok" THEN console
                        ELSE Append(console, <<"An error occurred">>)
    /\ UNCHANGED <<discovery, regions, futures, yielded, all_snapshots,
                   sorted_snapshots, flat_file, date_ranges, summary,
                   summary_file, call, ret>>

\* regions = get_all_regions(); if not regions: return
Discover ==
    /\ pc = "discover"
    /\ \E resp \in RegionAnswers :
          LET got == get_all_regions(resp)
          IN /\ discovery' = DiscoveryOf(resp)
             /\ regions' = IF got.kind = "return" THEN got.value ELSE regions
             /\ pc' = IF got.kind = "return" /\ got.value # <<>> THEN "submit" ELSE "done"
             /\ console' = console \o OuterExcept(got)
                              \o (IF got.kind = "return" /\ got.value = <<>>
                                  THEN << <<"Unable to retrieve AWS regions">> >> ELSE <<>>)
    /\ UNCHANGED <<futures, yielded, all_snapshots, sorted_snapshots, flat_file,
                   date_ranges, summary, summary_file, call, ret>>

\* executor.submit(get_snapshots_for_region, region), region after region.
Submit ==
    /\ pc = "submit"
    /\ futures' = Append(futures, [region |-> regions[Len(futures) + 1],
                                   state |-> "queued", outcome |-> NoRet])
    /\ pc' = IF Len(futures) + 1 = Len(regions) THEN "as_completed" ELSE "submit"
    /\ UNCHANGED <<discovery, regions, yielded, all_snapshots, sorted_snapshots,
                   flat_file, date_ranges, summary, summary_file, call, ret, console>>

\* A worker thread of the pool takes the oldest queued work item.
TaskStart(i) ==
    /\ futures[i].state = "queued"
    /\ \A j \in 1 .. (i - 1) : futures[j].state # "queued"
    /\ Cardinality(Running) < max_workers
    /\ futures' = [futures EXCEPT ![i].state = "running"]
    /\ UNCHANGED <<pc, discovery, regions, yielded, all_snapshots, sorted_snapshots,
                   flat_file, date_ranges, summary, summary_file, call, ret, console>>

\* get_snapshots_for_region(region) ends in its worker: the future holds its
\* result or its exception.
TaskFinish(i) ==
    /\ futures[i].state = "running"
    /\ \E outcome \in RegionOutcomes[futures[i].region] :
          futures' = [futures EXCEPT ![i].state = "finished", ![i].outcome = outcome]
    /\ UNCHANGED <<pc, discovery, regions, yielded, all_snapshots, sorted_snapshots,
                   flat_file, date_ranges, summary, summary_file, call, ret, console>>

\* One turn of "for future in as_completed(future_to_region)".
AsCompleted ==
    /\ pc = "as_completed"
    /\ \E i \in DOMAIN futures :
          /\ futures[i].state = "finished"
          /\ i \notin yielded
          /\ all_snapshots' = MergeResult(all_snapshots, futures[i].outcome)
          /\ yielded' = yielded \cup {i}
    /\ UNCHANGED <<pc, discovery, regions, futures, sorted_snapshots, flat_file,
                   date_ranges, summary, summary_file, call, ret, console>>

\* The loop and the with-block end; "if not all_snapshots: return", else the
\* sort (the table printed next changes nothing).
SortSnapshots ==
    /\ pc = "as_completed"
    /\ yielded = DOMAIN futures
    /\ IF all_snapshots = <<>>
       THEN /\ pc' = "done"
            /\ console' = Append(console, <<"No snapshots found in any region.">>)
            /\ UNCHANGED sorted_snapshots
       ELSE /\ sorted_snapshots' = SortedDescending(<<>>, all_snapshots)
            /\ pc' = "export_flat"
            /\ UNCHANGED console
    /\ UNCHANGED <<discovery, regions, futures, yielded, all_snapshots, flat_file,
                   date_ranges, summary, summary_file, call, ret>>

\* export_to_csv(sorted_snapshots, headers, csv_filename)
ExportFlat ==
    /\ pc = "export_flat"
    /\ \E written \in WriteOutcomes(FlatRows(sorted_snapshots)) :
          LET export == export_to_csv(written)
          IN /\ flat_file' = written
             /\ console' = console \o export.printed \o OuterExcept(export.ended)
             /\ pc' = IF export.ended.kind = "return" THEN "generate_summary" ELSE "done"
    /\ UNCHANGED <<discovery, regions, futures, yielded, all_snapshots,
                   sorted_snapshots, date_ranges, summary, summary_file, call, ret>>

Init ==
    /\ pc = "identity"
    /\ discovery = "none"
    /\ regions = <<>>
    /\ futures = <<>>
    /\ yielded = {}
    /\ all_snapshots = <<>>
    /\ sorted_snapshots = <<>>
    /\ flat_file = NoFile
    /\ date_ranges = <<>>
    /\ summary = EmptyDict
    /\ summary_file = NoFile
    /\ call = NoCall
    /\ ret = NoRet
    /\ console = <<>>

Next ==
    \/ GetIdentity
    \/ Discover
    \/ Submit
    \/ \E i \in DOMAIN futures : TaskStart(i)
    \/ \E i \in DOMAIN futures : TaskFinish(i)
    \/ AsCompleted
    \/ SortSnapshots
    \/ ExportFlat
    \/ GenerateSummary
    \/ ExportSummary
    \/ PrintSummary

Spec == Init /\ [][Next]_vars

(***************************************************************************)
(* generate_summary and export_summary_to_csv on any record list.          *)
(***************************************************************************)
\* Ages, in days before day 2000, of the records the lists are drawn from: the
\* window boundaries (0, 7, 22, 52, 142, 322, 687, 1417) and days beside them.
Ages == {0, 7, 22, 52, 142, 322, 687, 800, 1417, 1418}

AggSeeds ==
    { [Service |-> "EBS", Source |-> <<"vol", "1">>, Type |-> "Manual",
       SnapshotID |-> "snap-1", SizeGB |-> 800, Engine |-> "gp3",
       Encrypted |-> FALSE],
      [Service |-> "EBS", Source |-> <<"vol", "1">>, Type |-> "Automated",
       SnapshotID |-> "snap-2", SizeGB |-> 2000, Engine |-> "gp3",
       Encrypted |-> TRUE],
      [Service |-> "RDS", Source |-> <<"db", "1">>, Type |-> "Manual",
       SnapshotID |-> "db-1-final", SizeGB |-> 10000, Engine |-> "mysql",
       Encrypted |-> FALSE] }

AggRecords ==
    { [Service |-> s.Service, Region |-> "us-east-1", Type |-> s.Type,
       SnapshotID |-> s.SnapshotID, Source |-> s.Source, Engine |-> s.Engine,
       SizeGB |-> s.SizeGB, Status |-> "completed", CreationTime |-> 2000 - a,
       Encrypted |-> s.Encrypted] :
      s \in AggSeeds, a \in Ages }

InputLists == UNION {[1 .. n -> AggRecords] : n \in 0 .. MaxRecords}

InitAgg ==
    /\ pc = "generate_summary"
    /\ sorted_snapshots \in InputLists
    /\ discovery = "none"
    /\ regions = <<>>
    /\ futures = <<>>
    /\ yielded = {}
    /\ all_snapshots = <<>>
    /\ flat_file = NoFile
    /\ date_ranges = <<>>
    /\ summary = EmptyDict
    /\ summary_file = NoFile
    /\ call = NoCall
    /\ ret = NoRet
    /\ console = <<>>

NextAgg == GenerateSummary \/ ExportSummary

SpecAgg == InitAgg /\ [][NextAgg]_vars

(***************************************************************************)
(* Properties of generate_summary and export_summary_to_csv (SpecAgg).     *)
(***************************************************************************)
\* generate_summary has just returned: summary and date_ranges are those of
\* sorted_snapshots.
SummaryMade == pc = "export_summary"

\* The 8 bucket labels.
BucketLabels == {"7 days", "15 days", "30 days", "90 days", "180 days",
                 "365 days", "730 days", "> 730 days"}

\* The greatest creation time of a non-empty list.
Anchor(snapshots) ==
    CHOOSE t \in {snapshots[i].CreationTime : i \in DOMAIN snapshots} :
        \A i \in DOMAIN snapshots : snapshots[i].CreationTime <= t

\* How many records of the list have the key and the projection of record i.
Multiplicity(snapshots, i) ==
    Cardinality({j \in DOMAIN snapshots :
        /\ AggregationKey(snapshots[j]) = AggregationKey(snapshots[i])
        /\ Projection(snapshots[j]) = Projection(snapshots[i])})

\* The labels under which record i's projection stands in its group.
LabelsHolding(sm, snapshots, i) ==
    {l \in BucketLabels :
        Count(Projection(snapshots[i]), BucketOf(sm, AggregationKey(snapshots[i]), l)) > 0}

\* The <<key, label>> pairs of a summary, and the number of entries under them.
Buckets(sm) == {kl \in (DOMAIN sm) \X (UNION {DOMAIN sm[k] : k \in DOMAIN sm}) :
                   kl[2] \in DOMAIN sm[kl[1]]}

RECURSIVE EntriesOf(_, _)
EntriesOf(sm, buckets) ==
    IF buckets = {} THEN 0
    ELSE LET kl == CHOOSE x \in buckets : TRUE
         IN Len(sm[kl[1]][kl[2]]) + EntriesOf(sm, buckets \ {kl})

\* C1: for a non-empty list, generate_summary puts every record under exactly
\* one of the 8 bucket labels: each record's projection stands under one label
\* of its group only, as often as the record occurs in the list, no other label
\* is used, and the buckets hold as many entries as the list has records.
C1_Partition ==
    (SummaryMade /\ sorted_snapshots # <<>>) =>
        /\ \A k \in DOMAIN summary : DOMAIN summary[k] \subseteq BucketLabels
        /\ \A i \in DOMAIN sorted_snapshots :
              LET holding == LabelsHolding(summary, sorted_snapshots, i)
              IN /\ Cardinality(holding) = 1
                 /\ \A l \in holding :
                       Count(Projection(sorted_snapshots[i]),
                             BucketOf(summary, AggregationKey(sorted_snapshots[i]), l))
                       = Multiplicity(sorted_snapshots, i)
        /\ EntriesOf(summary, Buckets(summary)) = Len(sorted_snapshots)

\* Two records of one group stand under two labels, one of them a record on a
\* boundary two windows share.
C1_Witness ==
    /\ SummaryMade
    /\ Len(sorted_snapshots) = 2
    /\ \E k \in DOMAIN summary : Cardinality(DOMAIN summary[k]) = 2
    /\ \E i \in DOMAIN sorted_snapshots : \E j \in 1 .. 6 :
          sorted_snapshots[i].CreationTime = date_ranges[j][1]

\* C2 (as claimed): a record created exactly 800 days before the anchor stands
\* under '> 730 days' and under none of the 7 windows' labels.
C2_Day800InOverflow ==
    (SummaryMade /\ sorted_snapshots # <<>>) =>
        \A i \in DOMAIN sorted_snapshots :
            sorted_snapshots[i].CreationTime = Anchor(sorted_snapshots) - 800 =>
                LabelsHolding(summary, sorted_snapshots, i) = {"> 730 days"}

\* C3: generate_date_ranges returns 7 windows, each with start < end, the end
\* of window i+1 being the start of window i and the end of the first window
\* the anchor, which in generate_summary is the greatest creation time of the
\* input.
C3_WindowsCascade ==
    (SummaryMade /\ sorted_snapshots # <<>>) =>
        /\ Len(date_ranges) = 7
        /\ \A i \in 1 .. 6 : date_ranges[i + 1][2] = date_ranges[i][1]
        /\ \A i \in 1 .. 7 : date_ranges[i][1] < date_ranges[i][2]
        /\ date_ranges[1][2] = Anchor(sorted_snapshots)

\* The windows were made for a list whose first record is not its newest.
C3_Witness ==
    /\ SummaryMade
    /\ Len(sorted_snapshots) = 2
    /\ sorted_snapshots[1].CreationTime < sorted_snapshots[2].CreationTime
    /\ Len(date_ranges) = 7

\* C4: a record created on a boundary two adjacent windows share stands under
\* the newer window's label, a record created at the anchor under '7 days', and
\* a record stands under the overflow label exactly when it is strictly older
\* than the start of the oldest window.
C4_BoundaryToNewer ==
    (SummaryMade /\ sorted_snapshots # <<>>) =>
        \A i \in DOMAIN sorted_snapshots :
            LET t == sorted_snapshots[i].CreationTime
                holding == LabelsHolding(summary, sorted_snapshots, i)
            IN /\ \A j \in 1 .. 6 :
                      t = date_ranges[j][1] => holding = {date_ranges[j][3]}
               /\ t = Anchor(sorted_snapshots) => holding = {"7 days"}
               /\ ("> 730 days" \in holding) <=> (t < date_ranges[7][1])

\* A record on the boundary of two windows has been placed.
C4_Witness ==
    /\ SummaryMade
    /\ \E i \in DOMAIN sorted_snapshots : \E j \in 1 .. 6 :
          /\ sorted_snapshots[i].CreationTime = date_ranges[j][1]
          /\ date_ranges[j][3] \in LabelsHolding(summary, sorted_snapshots, i)

\* The list s in the order p, a permutation of its indices.
Permuted(s, p) == [i \in DOMAIN s |-> s[p[i]]]

\* Two summaries with the same keys, the same labels under each key and, under
\* each key and label, the same projections, count and total size.
SameAggregation(sm1, sm2) ==
    /\ DOMAIN sm1 = DOMAIN sm2
    /\ \A k \in DOMAIN sm1 :
          /\ DOMAIN sm1[k] = DOMAIN sm2[k]
          /\ \A l \in DOMAIN sm1[k] :
                /\ Range(sm1[k][l]) = Range(sm2[k][l])
                /\ Len(sm1[k][l]) = Len(sm2[k][l])
                /\ SeqSum(SizesOf(sm1[k][l])) = SeqSum(SizesOf(sm2[k][l]))

\* C5: generate_summary of any permutation of the list has the keys, the labels
\* and, under each key and label, the projections, the count and the total size
\* of generate_summary of the list.
C5_OrderIndependent ==
    SummaryMade =>
        \A p \in Permutations(DOMAIN sorted_snapshots) :
            SameAggregation(generate_summary(Permuted(sorted_snapshots, p)), summary)

\* A list of two records of different age, the older one first.
C5_Witness ==
    /\ SummaryMade
    /\ Len(sorted_snapshots) = 2
    /\ sorted_snapshots[1].CreationTime < sorted_snapshots[2].CreationTime
    /\ Cardinality(DOMAIN summary) = 2

\* The 'Snapshot Count' column summed over the rows of one kind.
CountColumn(rows, kind) ==
    SeqSum([i \in DOMAIN rows |-> IF rows[i].kind = kind THEN rows[i].count ELSE 0])

\* C6: when export_summary_to_csv has written the whole summary file, the
\* 'Snapshot Count' values of its per-group rows add up to the number of input
\* records, and so do the counts of its 'Total:' rows.
C6_CountsAddUp ==
    summary_file.complete =>
        /\ CountColumn(summary_file.rows, "group") = Len(sorted_snapshots)
        /\ CountColumn(summary_file.rows, "total") = Len(sorted_snapshots)

\* A whole summary file with groups in the overflow bucket and in a window.
C6_Witness ==
    /\ summary_file.complete
    /\ Len(sorted_snapshots) = 2
    /\ \E i, j \in DOMAIN summary_file.rows :
          /\ summary_file.rows[i].kind = "total"
          /\ summary_file.rows[i].date_range = "> 730 days"
          /\ summary_file.rows[j].kind = "total"
          /\ summary_file.rows[j].date_range = "7 days"

(***************************************************************************)
(* get_snapshots_for_region on its own: any region, any provider answers.  *)
(***************************************************************************)
CollectRegion ==
    /\ ret = NoRet
    /\ call # NoCall
    /\ ret' = get_snapshots_for_region(call)
    /\ UNCHANGED <<pc, discovery, regions, futures, yielded, all_snapshots,
                   sorted_snapshots, flat_file, date_ranges, summary,
                   summary_file, call, console>>

InitCollect ==
    /\ pc = "get_snapshots_for_region"
    /\ call \in UNION {Calls(RegionNames[i]) : i \in DOMAIN RegionNames}
    /\ ret = NoRet
    /\ console = <<>>
    /\ discovery = "none"
    /\ regions = <<>>
    /\ futures = <<>>
    /\ yielded = {}
    /\ all_snapshots = <<>>
    /\ sorted_snapshots = <<>>
    /\ flat_file = NoFile
    /\ date_ranges = <<>>
    /\ summary = EmptyDict
    /\ summary_file = NoFile

NextCollect == CollectRegion

SpecCollect == InitCollect /\ [][NextCollect]_vars

(***************************************************************************)
(* Properties of get_snapshots_for_region (SpecCollect).                   *)
(***************************************************************************)
\* A provider call of the service's collector raised.
RdsFailed(c) == c.rds.manual.kind = "error" \/ c.rds.automated.kind = "error"

Ec2Failed(c) == c.ec2.identity.kind = "error" \/ c.ec2.snapshots.kind = "error"

EfsFailed(c) ==
    \/ c.efs.file_systems.kind = "error"
    \/ \E i \in DOMAIN c.efs.file_systems.items :
          \/ c.efs.file_systems.items[i].backup_policy.kind = "error"
          \/ c.efs.file_systems.items[i].recovery_points.kind = "error"

\* A raw object with its creation time.
HasCreationTime(o) ==
    \/ "SnapshotCreateTime" \in DOMAIN o
    \/ "StartTime" \in DOMAIN o
    \/ "CreationDate" \in DOMAIN o

ItemsOf(resp) == IF resp.kind = "ok" THEN resp.items ELSE <<>>

\* Some listing of the call holds an object without its creation time.
HasMalformed(c) ==
    \E o \in Range(ItemsOf(c.rds.manual)) \cup Range(ItemsOf(c.ec2.snapshots)) :
        ~HasCreationTime(o)

\* The call with the objects that lack their creation time left out.
WithoutMalformed(c) ==
    [c EXCEPT !.rds.manual = IF @.kind = "ok"
                             THEN Ok(SelectSeq(@.items, HasCreationTime)) ELSE @,
              !.ec2.snapshots = IF @.kind = "ok"
                                THEN Ok(SelectSeq(@.items, HasCreationTime)) ELSE @]

\* What a service's collector contributes: nothing when its query failed.
PartOf(failed, outcome) == IF failed \/ outcome.kind = "raise" THEN <<>> ELSE outcome.value

\* C8 (as claimed): when the provider calls of exactly one of the three
\* services fail, with whatever exception, and every listed object is well
\* formed, get_snapshots_for_region returns the records of the other two
\* services.
C8_ServiceFailureIsolated ==
    (/\ ret # NoRet
     /\ ~HasMalformed(call)
     /\ Cardinality({f \in {<<"rds", RdsFailed(call)>>, <<"ec2", Ec2Failed(call)>>,
                            <<"efs", EfsFailed(call)>>} : f[2]}) = 1) =>
        /\ ret.kind = "return"
        /\ ret.value =
              PartOf(RdsFailed(call), get_rds_snapshots_for_region(call.region, call.rds))
              \o PartOf(Ec2Failed(call), get_ec2_snapshots_for_region(call.region, call.ec2))
              \o PartOf(EfsFailed(call), get_efs_snapshots_for_region(call.region, call.efs))

\* C9 (as claimed): when no provider call fails and a listed object lacks its
\* creation time, get_snapshots_for_region returns the records of every other
\* object, the ones it returns without that object, each with a creation time.
C9_OnlyMalformedDropped ==
    (/\ ret # NoRet
     /\ HasMalformed(call)
     /\ ~RdsFailed(call) /\ ~Ec2Failed(call) /\ ~EfsFailed(call)) =>
        /\ ret.kind = "return"
        /\ ret = get_snapshots_for_region(WithoutMalformed(call))
        /\ \A i \in DOMAIN ret.value : "CreationTime" \in DOMAIN ret.value[i]

(***************************************************************************)
(* Properties of main (Spec).                                              *)
(***************************************************************************)
\* The futures whose task returned, and those among them the loop has handled.
Succeeded == {i \in DOMAIN futures : futures[i].outcome.kind = "return"}

\* The ways to put the elements of a finite set in a row.
Orderings(S) ==
    {f \in [1 .. Cardinality(S) -> S] : \A a, b \in DOMAIN f : f[a] = f[b] => a = b}

\* Every region has its future and the as_completed loop has handled them all.
FanOutOver ==
    /\ futures # <<>>
    /\ Len(futures) = Len(regions)
    /\ yielded = DOMAIN futures

\* C7: all_snapshots is, in some order of the futures handled so far, the
\* results of those whose task returned, each once, and nothing else; when the
\* fan-out is over every task has run to its end, so every region task that
\* returned is in all_snapshots whatever the other tasks raised and in whatever
\* order they completed.
C7_SiblingsMerged ==
    /\ \E order \in Orderings(Succeeded \cap yielded) :
          all_snapshots = Flatten([k \in DOMAIN order |-> futures[order[k]].outcome.value])
    /\ FanOutOver => \A i \in DOMAIN futures : futures[i].state = "finished"

\* The fan-out is over, one task raised and another returned records.
C7_Witness ==
    /\ FanOutOver
    /\ \E i, j \in DOMAIN futures :
          /\ futures[i].outcome.kind = "raise"
          /\ futures[j].outcome.kind = "return"
          /\ futures[j].outcome.value # <<>>
    /\ all_snapshots # <<>>

\* C10: once region discovery has failed or returned no region, main has ended
\* with no task submitted and neither file written.
C10_AbortWithoutRegions ==
    discovery \in {"empty", "ClientError", "EndpointConnectionError"} =>
        /\ pc = "done"
        /\ futures = <<>>
        /\ ~flat_file.exists
        /\ ~summary_file.exists

\* describe_regions raised a ClientError and main has ended.
C10_Witness ==
    /\ discovery = "ClientError"
    /\ regions = <<>>
    /\ pc = "done"

\* The console holds the line.
Printed(text) == \E i \in DOMAIN console : console[i] = <<text>>

\* The file an exporter leaves when nothing fails.
WholeFile(rows) == [exists |-> TRUE, rows |-> rows, complete |-> TRUE]

\* C11: when main has ended after the sort, a flat file that could not be
\* written whole has not kept generate_summary and export_summary_to_csv from
\* running, a summary file that could not be written whole has left a whole
\* flat file as it was and main has gone on to print its summary, and no
\* exception of an exporter has reached main's outer handler.
C11_ExportFailuresIsolated ==
    (pc = "done" /\ sorted_snapshots # <<>>) =>
        /\ ~flat_file.complete =>
              /\ Printed("Error exporting to CSV")
              /\ Printed("Generating summary report...")
              /\ summary = generate_summary(sorted_snapshots)
              /\ Printed("Summary exported to") \/ Printed("Error exporting summary to CSV")
              /\ Printed("Summary exported to") =>
                    summary_file = WholeFile(SummaryRows(summary))
        /\ ~summary_file.complete =>
              /\ Printed("Error exporting summary to CSV")
              /\ Printed("Overall Summary")
              /\ Printed("Data exported to") =>
                    flat_file = WholeFile(FlatRows(sorted_snapshots))
        /\ ~Printed("An error occurred")

\* main has ended with a flat file cut short and a whole summary file.
C11_Witness ==
    /\ pc = "done"
    /\ flat_file.exists
    /\ ~flat_file.complete
    /\ Len(flat_file.rows) < Len(FlatRows(sorted_snapshots))
    /\ summary_file = WholeFile(SummaryRows(summary))
    /\ Printed("Overall Summary")

(***************************************************************************)
(* The fan-out on its own: the executor of main, its submissions and its   *)
(* workers, over regions that hold nothing.  The as_completed loop, which  *)
(* reads the futures and changes none, is left to Spec.                    *)
(***************************************************************************)
\* n regions without inventory.
PoolRegions(n) == SubSeq(RegionNames, 4, 3 + n)

InitPool ==
    /\ pc = "submit"
    /\ discovery = "ok"
    /\ regions = PoolRegions(FanOutRegions)
    /\ futures = <<>>
    /\ yielded = {}
    /\ all_snapshots = <<>>
    /\ sorted_snapshots = <<>>
    /\ flat_file = NoFile
    /\ date_ranges = <<>>
    /\ summary = EmptyDict
    /\ summary_file = NoFile
    /\ call = NoCall
    /\ ret = NoRet
    /\ console = <<>>

NextPool ==
    \/ Submit
    \/ \E i \in DOMAIN futures : TaskStart(i)
    \/ \E i \in DOMAIN futures : TaskFinish(i)

SpecPool == InitPool /\ [][NextPool]_vars

\* The tasks submitted for a region.
TasksOf(region) == {i \in DOMAIN futures : futures[i].region = region}

\* C12: no region ever has more than one task, every discovered region has
\* exactly one once the submissions are over, and the tasks running at the
\* same time are never more than min(number of regions, 10).
C12_OneTaskPerRegionPoolCapped ==
    /\ \A k \in DOMAIN regions : Cardinality(TasksOf(regions[k])) <= 1
    /\ \A i \in DOMAIN futures : futures[i].region \in Range(regions)
    /\ pc # "submit" =>
          \A k \in DOMAIN regions : Cardinality(TasksOf(regions[k])) = 1
    /\ Cardinality(Running) <= Len(regions)
    /\ Cardinality(Running) <= 10

\* More than 10 regions: 10 tasks run and a submitted task waits for a worker.
C12_Witness ==
    /\ Len(regions) > 10
    /\ Cardinality(Running) = 10
    /\ \E i \in DOMAIN futures : futures[i].state = "queued"

(***************************************************************************)
(* The order of the flat report (Spec).                                    *)
(***************************************************************************)
\* C13: once main has sorted, sorted_snapshots holds the records of
\* all_snapshots, each as often, and of two of its records the earlier one has
\* no smaller Service; with the same Service it is not the Automated one of a
\* Manual and an Automated record; with the same Service and Type it is not
\* the older one.
C13_FlatListOrdered ==
    sorted_snapshots # <<>> =>
        /\ Len(sorted_snapshots) = Len(all_snapshots)
        /\ \A x \in Range(all_snapshots) :
              Count(x, sorted_snapshots) = Count(x, all_snapshots)
        /\ \A i, j \in DOMAIN sorted_snapshots :
              i < j =>
                LET a == sorted_snapshots[i]
                    b == sorted_snapshots[j]
                IN /\ ~StrLess(a.Service, b.Service)
                   /\ a.Service = b.Service =>
                         ~(a.Type = "Automated" /\ b.Type = "Manual")
                   /\ (a.Service = b.Service /\ a.Type = b.Type) =>
                         a.CreationTime >= b.CreationTime

\* The regions' results arrived in another order than the sorted one; the
\* sorted list has an older Manual record before a newer Automated record of
\* its service, and a newer record before an older one of its service and kind.
C13_Witness ==
    /\ sorted_snapshots # <<>>
    /\ sorted_snapshots # all_snapshots
    /\ \E i, j \in DOMAIN sorted_snapshots :
          /\ i < j
          /\ sorted_snapshots[i].Service = sorted_snapshots[j].Service
          /\ sorted_snapshots[i].Type = "Manual"
          /\ sorted_snapshots[j].Type = "Automated"
          /\ sorted_snapshots[i].CreationTime < sorted_snapshots[j].CreationTime
    /\ \E i, j \in DOMAIN sorted_snapshots :
          /\ i < j
          /\ sorted_snapshots[i].Service = sorted_snapshots[j].Service
          /\ sorted_snapshots[i].Type = sorted_snapshots[j].Type
          /\ sorted_snapshots[i].CreationTime > sorted_snapshots[j].CreationTime
          /\ \E k, l \in DOMAIN all_snapshots :
                /\ k < l
                /\ all_snapshots[k] = sorted_snapshots[j]
                /\ all_snapshots[l] = sorted_snapshots[i]
====
